---- MODULE Spec2Model ----
(***************************************************************************)
(* Retail spatial interaction model: retailmodel.py (Stores, Brands,       *)
(* DemandZones) and the what-if loop of retail_application.py.             *)
(*                                                                         *)
(* Numbers.  Python floats are modelled by exact rationals [t |-> "num",   *)
(* n, d] in lowest terms, plus the values IEEE arithmetic and pandas add   *)
(* to them: "inf" and "nan" (numpy scalars do not raise on a division by   *)
(* zero), and "none" (the None pandas pads a short row with).  A raised    *)
(* exception is a value whose tag is the exception's name; it propagates   *)
(* through every operation.                                                *)
(*                                                                         *)
(* The deterrence parameters are taken in units of ln 2, so that           *)
(* exp(-beta * dist) = 2^(-b * dist) is an exact rational for the integer  *)
(* products the inputs give; beyond ExpUnderflow the float result is 0.0.  *)
(***************************************************************************)
EXTENDS Integers, Sequences, FiniteSets, TLC

----------------------------------------------------------------------------
(* Bounds of the input tables. *)
MaxZones == 2
MaxStores == 2

(* np.exp(-x) is 0.0 once x exceeds 1074 ln 2 (below the least subnormal). *)
ExpUnderflow == 1074

----------------------------------------------------------------------------
(* Values *)

Abs(i) == IF i < 0 THEN -i ELSE i

RECURSIVE GCD(_, _)
GCD(a, b) == IF b = 0 THEN a ELSE GCD(b, a % b)

Num(n, d) ==
    LET g == GCD(Abs(n), Abs(d))
        s == IF d < 0 THEN -1 ELSE 1
    IN  [t |-> "num", n |-> s * (n \div g), d |-> s * (d \div g)]

Special(tag) == [t |-> tag, n |-> 0, d |-> 1]
Inf == Special("inf")
NaN == Special("nan")
None == Special("none")
KeyError == Special("KeyError")
ZeroDivisionError == Special("ZeroDivisionError")
TypeError == Special("TypeError")
Zero == Num(0, 1)
One == Num(1, 1)

IsNum(x) == x.t = "num"
IsRaise(x) == x.t \in {"KeyError", "ZeroDivisionError", "TypeError"}

(* the exception of a binary operation whose operands may have raised, *)
(* or hold None (unsupported operand type)                            *)
Lift(x, y, v) ==
    IF IsRaise(x) THEN x
    ELSE IF IsRaise(y) THEN y
    ELSE IF x.t = "none" \/ y.t = "none" THEN TypeError
    ELSE v

(* float + float *)
Add(x, y) ==
    Lift(x, y,
         IF x.t = "nan" \/ y.t = "nan" THEN NaN
         ELSE IF x.t = "inf" \/ y.t = "inf" THEN Inf
         ELSE LET g == GCD(x.d, y.d)
              IN  Num(x.n * (y.d \div g) + y.n * (x.d \div g),
                      x.d * (y.d \div g)))

(* float - float (no negative infinity arises from the model's inputs) *)
Sub(x, y) ==
    Lift(x, y,
         IF x.t = "nan" \/ y.t = "nan" THEN NaN
         ELSE IF x.t = "inf" /\ y.t = "inf" THEN NaN
         ELSE IF x.t = "inf" \/ y.t = "inf" THEN Inf
         ELSE LET g == GCD(x.d, y.d)
              IN  Num(x.n * (y.d \div g) - y.n * (x.d \div g),
                      x.d * (y.d \div g)))

(* float * float: inf * 0.0 is nan *)
Mul(x, y) ==
    Lift(x, y,
         IF x.t = "nan" \/ y.t = "nan" THEN NaN
         ELSE IF x.t = "inf" THEN (IF y.t = "inf" \/ y.n # 0 THEN Inf ELSE NaN)
         ELSE IF y.t = "inf" THEN (IF x.n # 0 THEN Inf ELSE NaN)
         ELSE Num(x.n * y.n, x.d * y.d))

(* numpy.float64 / number: division by zero gives inf or nan, no exception *)
NpDiv(x, y) ==
    Lift(x, y,
         IF x.t = "nan" \/ y.t = "nan" THEN NaN
         ELSE IF x.t = "inf" THEN (IF y.t = "inf" THEN NaN ELSE Inf)
         ELSE IF y.t = "inf" THEN Zero
         ELSE IF y.n = 0 THEN (IF x.n = 0 THEN NaN ELSE Inf)
         ELSE Num(x.n * y.d, x.d * y.n))

(* x < y on floats: False whenever an operand is nan *)
Less(x, y) ==
    /\ x.t \in {"num", "inf"} /\ y.t \in {"num", "inf"}
    /\ x.t = "num"
    /\ (y.t = "inf" \/ x.n * y.d < y.n * x.d)

LessEq(x, y) ==
    /\ x.t \in {"num", "inf"} /\ y.t \in {"num", "inf"}
    /\ (y.t = "inf" \/ (x.t = "num" /\ x.n * y.d <= y.n * x.d))

(* int ** float with a non-negative integral exponent *)
RECURSIVE Pow(_, _)
Pow(b, e) == IF e = 0 THEN 1 ELSE b * Pow(b, e - 1)

(* n ** 0.5 for a perfect square n: the largest r with r * r <= n, *)
(* found by bisection                                              *)
RECURSIVE SqrtBetween(_, _, _)
SqrtBetween(lo, hi, n) ==
    IF hi - lo <= 1 THEN lo
    ELSE LET mid == (lo + hi) \div 2
         IN  IF mid * mid <= n THEN SqrtBetween(mid, hi, n)
             ELSE SqrtBetween(lo, mid, n)
Sqrt(n) == SqrtBetween(0, IF n < 46340 THEN n + 1 ELSE 46340, n)

(* np.exp(-x), x a multiple of ln 2 given by its integer factor *)
ExpNeg(x) ==
    IF ~IsNum(x) THEN x
    ELSE IF x.n > ExpUnderflow * x.d THEN Zero
    ELSE Num(1, Pow(2, x.n \div x.d))

----------------------------------------------------------------------------
(* retailmodel.py *)

(* Stores.__init__ *)
Stores(name, brand, easting, northing, footage) ==
    [name |-> name, brand |-> brand, easting |-> easting,
     northing |-> northing, footage |-> footage]

(* an object attribute that exists only once a method has assigned it *)
Unset == [set |-> FALSE, val |-> <<>>]
Attr(v) == [set |-> TRUE, val |-> v]

(* DemandZones.__init__: zone_flow is no attribute of a new zone *)
DemandZones(OA11CD, expenditure, oac, c_easting, c_northing) ==
    [OA11CD |-> OA11CD, expenditure |-> expenditure, oac |-> oac,
     c_easting |-> c_easting, c_northing |-> c_northing, zone_flow |-> Unset]

(* DemandZones.dist_to_store: kilometres between centroid and store *)
dist_to_store(zone, store) ==
    LET de == zone.c_easting - store.easting
        dn == zone.c_northing - store.northing
    IN  Num(Abs(Sqrt(de * de + dn * dn)), 1000)

(* the loop of comp_ai; a is the running sum, or the KeyError raised by *)
(* alphas[store.brand]                                                  *)
RECURSIVE AiLoop(_, _, _, _, _)
AiLoop(zone, stores, beta, alphas, a) ==
    IF stores = <<>> THEN a
    ELSE LET store == Head(stores)
             dist == dist_to_store(zone, store)
             x == Mul(beta, dist)
         IN  IF store.brand \notin DOMAIN alphas THEN KeyError
             ELSE LET y == alphas[store.brand]
                      z == Mul(Num(Pow(store.footage, y), 1), ExpNeg(x))
                  IN  AiLoop(zone, Tail(stores), beta, alphas, Add(a, z))

(* DemandZones.comp_ai: 1/a.  With no store a is still the int 0 and 1/a *)
(* raises; otherwise a is a numpy float and 1/a is inf when a is 0.0    *)
comp_ai(zone, stores, beta, alphas) ==
    LET a == AiLoop(zone, stores, beta, alphas, Zero)
    IN  IF IsRaise(a) THEN a
        ELSE IF stores = <<>> THEN ZeroDivisionError
        ELSE NpDiv(One, a)

(* Flow with the last product written as a difference *)
Flow_Subtract(zone, store, Ai, alphas, betas) ==
    LET O == Num(zone.expenditure, 1)
        W == Num(Pow(store.footage, alphas[store.brand]), 1)
        C == dist_to_store(zone, store)
        X == Mul(Num(betas[zone.oac], 1), C)
    IN  Sub(Mul(Mul(Ai, O), W), ExpNeg(X))

(* Flow without the attraction term W *)
Flow_NoAttraction(zone, store, Ai, alphas, betas) ==
    LET O == Num(zone.expenditure, 1)
        C == dist_to_store(zone, store)
        X == Mul(Num(betas[zone.oac], 1), C)
    IN  Mul(Mul(Ai, O), ExpNeg(X))

(* one cell: f = Ai * O * W * np.exp(-X) *)
Flow(zone, store, Ai, alphas, betas) ==
    LET O == Num(zone.expenditure, 1)
        W == Num(Pow(store.footage, alphas[store.brand]), 1)
        C == dist_to_store(zone, store)
        X == Mul(Num(betas[zone.oac], 1), C)
    IN  Mul(Mul(Mul(Ai, O), W), ExpNeg(X))

(* the loop over the stores (lines 195-200, 213-218): zone_flow with *)
(* the flows of the stores from the j-th on appended                 *)
RECURSIVE FlowLoop(_, _, _, _, _, _, _)
FlowLoop(zone, stores, Ai, alphas, betas, j, zone_flow) ==
    IF j > Len(stores) THEN zone_flow
    ELSE FlowLoop(zone, stores, Ai, alphas, betas, j + 1,
                  Append(zone_flow, Flow(zone, stores[j], Ai, alphas, betas)))

(* the flows of one zone, given its Ai: [raised, row], raised = None *)
(* when the row was computed                                         *)
RowOf(zone, stores, Ai, alphas, betas) ==
    IF IsRaise(Ai) THEN [raised |-> Ai, row |-> <<>>]
    ELSE [raised |-> None,
          row |-> FlowLoop(zone, stores, Ai, alphas, betas, 1, <<>>)]

(* Ai = comp_ai(stores, betas[zone.oac], alphas), then the loop, as *)
(* both forms of comp_flow have them                                *)
ZoneRow(zone, stores, alphas, betas) ==
    IF zone.oac \notin DOMAIN betas THEN [raised |-> KeyError, row |-> <<>>]
    ELSE RowOf(zone, stores,
               comp_ai(zone, stores, Num(betas[zone.oac], 1), alphas),
               alphas, betas)

(* sum(x): the int 0 plus the elements, left to right *)
RECURSIVE SumFrom(_, _)
SumFrom(acc, xs) ==
    IF xs = <<>> THEN acc ELSE SumFrom(Add(acc, Head(xs)), Tail(xs))
Sum(xs) == SumFrom(Zero, xs)

(* the j-th elements of the rows from the i-th on, appended to column *)
RECURSIVE Column(_, _, _, _)
Column(flows, j, i, column) ==
    IF i > Len(flows) THEN column
    ELSE Column(flows, j, i + 1, Append(column, flows[i][j]))

(* the column sums of the zone rows (zip over the rows), from the j-th *)
(* column on: no zone row gives no column at all                       *)
RECURSIVE ColumnSums(_, _, _)
ColumnSums(flows, j, revenue) ==
    IF flows = <<>> \/ j > Len(flows[1]) THEN revenue
    ELSE ColumnSums(flows, j + 1,
                    Append(revenue, Sum(Column(flows, j, 1, <<>>))))

(* pandas pads a row shorter than the widest with None *)
RECURSIVE Pad(_, _)
Pad(row, width) ==
    IF Len(row) >= width THEN row ELSE Pad(Append(row, None), width)

RECURSIVE PadAll(_, _, _, _)
PadAll(rows, width, i, padded) ==
    IF i > Len(rows) THEN padded
    ELSE PadAll(rows, width, i + 1, Append(padded, Pad(rows[i], width)))

(* pd.DataFrame(flows, columns, index) for flows = [brand_names] + the *)
(* zone rows + [revenue]                                               *)
DataFrame(brand_names, rows, revenue, columns, index) ==
    [columns |-> columns, index |-> index,
     Brand_Name |-> brand_names,
     rows |-> PadAll(rows, Len(columns), 1, <<>>),
     Store_Revenue |-> Pad(revenue, Len(columns))]

NoFrame == DataFrame(<<>>, <<>>, <<>>, <<>>, <<>>)

(* DemandZones.comp_flow, self a DemandZones object: the returned list; *)
(* the call also assigns it to self.zone_flow                           *)
comp_flow_zone(self, stores, alphas, betas) ==
    ZoneRow(self, stores, alphas, betas)

(* the zone object after comp_flow(self, ...) on it: self.zone_flow = [] *)
(* is assigned before anything can raise, and filled by the appends      *)
zone_after_comp_flow(self, stores, alphas, betas) ==
    [self EXCEPT !.zone_flow =
        Attr(comp_flow_zone(self, stores, alphas, betas).row)]

(* the loop over the zones (lines 209-219): [raised, flows], ended by *)
(* the first zone whose row raises                                    *)
RECURSIVE ZoneLoop(_, _, _, _, _, _)
ZoneStep(self, stores, alphas, betas, i, flows, r) ==
    IF r.raised # None THEN [raised |-> r.raised, flows |-> flows]
    ELSE ZoneLoop(self, stores, alphas, betas, i + 1, Append(flows, r.row))
ZoneLoop(self, stores, alphas, betas, i, flows) ==
    IF i > Len(self) THEN [raised |-> None, flows |-> flows]
    ELSE ZoneStep(self, stores, alphas, betas, i, flows,
                  ZoneRow(self[i], stores, alphas, betas))

(* brand_names: a brands row for the output (lines 205-207) *)
RECURSIVE BrandNames(_, _, _)
BrandNames(stores, j, brand_names) ==
    IF j > Len(stores) THEN brand_names
    ELSE BrandNames(stores, j + 1, Append(brand_names, stores[j].brand))

(* columns: the store names (lines 220-222) *)
RECURSIVE Columns(_, _, _)
Columns(stores, j, columns) ==
    IF j > Len(stores) THEN columns
    ELSE Columns(stores, j + 1, Append(columns, stores[j].name))

(* indecies: the zone codes between 'Brand_Name' and 'Store_Revenue' *)
(* (lines 224-227)                                                   *)
RECURSIVE Indecies(_, _, _)
Indecies(self, i, indecies) ==
    IF i > Len(self) THEN indecies
    ELSE Indecies(self, i + 1, Append(indecies, self[i].OA11CD))

(* lines 220-231, given the outcome of the loop over the zones *)
Frame(self, stores, loop) ==
    IF loop.raised # None THEN [raised |-> loop.raised, df |-> NoFrame]
    ELSE [raised |-> None,
          df |-> DataFrame(BrandNames(stores, 1, <<>>),
                           loop.flows,
                           ColumnSums(loop.flows, 1, <<>>),
                           Columns(stores, 1, <<>>),
                           Indecies(self, 1, <<>>))]

(* DemandZones.comp_flow, self a list of zones: [raised, df] *)
comp_flow(self, stores, alphas, betas) ==
    Frame(self, stores, ZoneLoop(self, stores, alphas, betas, 1, <<>>))

(* the position of a column label *)
Col(flows, name) == CHOOSE j \in 1..Len(flows.columns) : flows.columns[j] = name

(* Stores.get_store_revenue: flows.loc['Store_Revenue'][self.name] *)
get_store_revenue(self, flows) == flows.Store_Revenue[Col(flows, self.name)]

(* Brands.comp_brand_revenue: the loop runs over flows.columns[1:] *)
RECURSIVE BrandLoop(_, _, _, _)
BrandLoop(brand, flows, j, brand_revenue) ==
    IF j > Len(flows.columns) THEN brand_revenue
    ELSE BrandLoop(brand, flows, j + 1,
                   IF flows.Brand_Name[j] = brand
                   THEN Add(brand_revenue, flows.Store_Revenue[j])
                   ELSE brand_revenue)

comp_brand_revenue(brand, flows) == BrandLoop(brand, flows, 2, Zero)

----------------------------------------------------------------------------
(* retail_application.py *)

VARIABLES
    demand_zones,       \* list of DemandZones objects (demand.csv)
    stores,             \* list of Stores objects (stores.csv)
    alphas,             \* brand -> attractiveness exponent (brands.csv)
    betas,              \* OAC class -> deterrence, in units of ln 2 (oac.csv)
    df_flow,            \* the baseline Flows Matrix
    my_store,           \* the store the user entered in this iteration
    new_stores,         \* stores.copy() with my_store appended
    new_df_flow,        \* the Flows Matrix of new_stores
    brand_revenue,      \* comp_brand_revenue(my_brand, df_flow)
    store_revenue,      \* the new store's Store_Revenue
    trading_in,         \* store_revenue / my_store.footage
    new_brand_revenue,  \* comp_brand_revenue(my_brand, new_df_flow)
    cani,               \* brand_revenue + store_revenue - new_brand_revenue
    zone_flow,          \* what the last single-zone comp_flow call returned
    raised,             \* the exception that ended the run, None if none
    pc                  \* "start", "zone", "prompt", "raised", "done"

vars == <<demand_zones, stores, alphas, betas, df_flow, my_store, new_stores,
          new_df_flow, brand_revenue, store_revenue, trading_in,
          new_brand_revenue, cani, zone_flow, raised, pc>>

inputs == <<stores, alphas, betas>>
scenario == <<my_store, new_stores, new_df_flow, brand_revenue, store_revenue,
              trading_in, new_brand_revenue, cani>>

(* brands.csv and oac.csv: brand "C" and class "9" have no row *)
AlphasTable == [b \in {"A", "B"} |-> IF b = "A" THEN 1 ELSE 2]
BetasTable == [c \in {"1", "2"} |-> IF c = "1" THEN 1 ELSE 1100]

(* rows of demand.csv: expenditure, oac, c_easting, c_northing *)
ZoneRows ==
    { <<2, "1", 0, 0>>, <<0, "1", 600, 800>>, <<1, "2", 600, 800>>,
      <<1, "9", 0, 0>> }

(* rows of stores.csv: brand, easting, northing, footage *)
StoreRows ==
    { <<"A", 0, 0, 2>>, <<"B", 600, 800, 2>>, <<"A", 600, 800, 0>>,
      <<"C", 0, 0, 1>> }

RECURSIVE Lists(_, _)
Lists(S, n) ==
    IF n = 0 THEN {<<>>}
    ELSE LET shorter == Lists(S, n - 1)
         IN  shorter \cup {Append(l, x) : l \in {k \in shorter : Len(k) = n - 1},
                                          x \in S}

NoStore == Stores(0, "", 0, 0, 0)

(* the containers once the input files are read (lines 71-142); *)
(* identifiers are unique: the row number                       *)
ReadZones(zl) ==
    [i \in 1..Len(zl) |-> DemandZones(i, zl[i][1], zl[i][2], zl[i][3], zl[i][4])]
ReadStores(sl) ==
    [j \in 1..Len(sl) |-> Stores(j, sl[j][1], sl[j][2], sl[j][3], sl[j][4])]

Init ==
    /\ \E zl \in Lists(ZoneRows, MaxZones) : demand_zones = ReadZones(zl)
    /\ \E sl \in Lists(StoreRows, MaxStores) : stores = ReadStores(sl)
    /\ alphas = AlphasTable
    /\ betas = BetasTable
    /\ df_flow = NoFrame
    /\ my_store = NoStore
    /\ new_stores = <<>>
    /\ new_df_flow = NoFrame
    /\ brand_revenue = None
    /\ store_revenue = None
    /\ trading_in = None
    /\ new_brand_revenue = None
    /\ cani = None
    /\ zone_flow = Unset
    /\ raised = None
    /\ pc = "start"

(* df_flow = retailmodel.DemandZones.comp_flow(demand_zones, stores, ...) *)
Baseline ==
    /\ pc = "start"
    /\ LET r == comp_flow(demand_zones, stores, alphas, betas)
       IN  IF r.raised # None
           THEN /\ raised' = r.raised
                /\ pc' = "raised"
                /\ UNCHANGED df_flow
           ELSE /\ df_flow' = r.df
                /\ pc' = "prompt"
                /\ UNCHANGED raised
    /\ UNCHANGED <<demand_zones, inputs, scenario, zone_flow>>

(* a caller's demand_zones[i].comp_flow(stores, alphas, betas) *)
ZoneFlow(i) ==
    /\ pc = "start"
    /\ LET r == comp_flow_zone(demand_zones[i], stores, alphas, betas)
       IN  /\ demand_zones' =
                [demand_zones EXCEPT
                   ![i] = zone_after_comp_flow(@, stores, alphas, betas)]
           /\ IF r.raised # None
              THEN /\ raised' = r.raised
                   /\ pc' = "raised"
                   /\ UNCHANGED zone_flow
              ELSE /\ zone_flow' = Attr(r.row)
                   /\ pc' = "zone"
                   /\ UNCHANGED raised
    /\ UNCHANGED <<inputs, df_flow, scenario>>

(* Report with the new store's revenue left out of cani *)
Report_NoStoreRevenue(store, copy, r, br, sr, ti, nbr) ==
    [my_store |-> store, new_stores |-> copy,
     new_df_flow |-> r.df,
     brand_revenue |-> br, store_revenue |-> sr, trading_in |-> ti,
     new_brand_revenue |-> nbr, cani |-> Sub(br, nbr),
     raised |-> IF r.raised # None THEN r.raised
                ELSE IF IsRaise(br) THEN br
                ELSE IF IsRaise(ti) THEN ti
                ELSE IF IsRaise(nbr) THEN nbr
                ELSE None,
     step |-> IF r.raised # None THEN 1
              ELSE IF IsRaise(br) THEN 2
              ELSE IF IsRaise(ti) THEN 3
              ELSE IF IsRaise(nbr) THEN 4
              ELSE 5]

(* lines 338-342, given what lines 258-268 computed: the values *)
(* assigned, and the first statement that raised                *)
Report(store, copy, r, br, sr, ti, nbr) ==
    [my_store |-> store, new_stores |-> copy,
     new_df_flow |-> r.df,
     brand_revenue |-> br, store_revenue |-> sr, trading_in |-> ti,
     new_brand_revenue |-> nbr, cani |-> Sub(Add(br, sr), nbr),
     raised |-> IF r.raised # None THEN r.raised
                ELSE IF IsRaise(br) THEN br
                ELSE IF IsRaise(ti) THEN ti
                ELSE IF IsRaise(nbr) THEN nbr
                ELSE None,
     step |-> IF r.raised # None THEN 1
              ELSE IF IsRaise(br) THEN 2
              ELSE IF IsRaise(ti) THEN 3
              ELSE IF IsRaise(nbr) THEN 4
              ELSE 5]

(* store_revenue = new_df_flow.loc['Store_Revenue'][my_store.name] and *)
(* trading_in = store_revenue / my_store.footage; base is df_flow      *)
Revenue(base, store, copy, r, sr) ==
    Report(store, copy, r,
           comp_brand_revenue(store.brand, base),
           sr,
           IF sr = None THEN TypeError ELSE NpDiv(sr, Num(store.footage, 1)),
           comp_brand_revenue(store.brand, r.df))

Recompute(base, store, copy, r) ==
    Revenue(base, store, copy, r,
            IF r.raised # None THEN None ELSE get_store_revenue(store, r.df))

(* new_df_flow = comp_flow(demand_zones, new_stores, alphas, betas) *)
Augment(zones, al, be, base, store, copy) ==
    Recompute(base, store, copy, comp_flow(zones, copy, al, be))

(* my_store = Stores(...); new_stores = stores.copy();  *)
(* new_stores.append(my_store), the user's answers being the row; the *)
(* name is one no store has yet                                       *)
Scenario(zones, sts, al, be, base, row) ==
    Augment(zones, al, be, base,
            Stores(Len(sts) + 1, row[1], row[2], row[3], row[4]),
            Append(sts, Stores(Len(sts) + 1, row[1], row[2], row[3], row[4])))

(* the list stores after new_stores = stores with no copy() and *)
(* new_stores.append(my_store): one list under two names        *)
append_to_alias(sts, store) == Append(sts, store)

(* the list stores after new_stores = stores.copy() and                *)
(* new_stores.append(my_store): copy() makes a new list, and append    *)
(* acts on that list alone                                             *)
append_to_copy(sts, store) == sts

(* the statements of one iteration of the while loop (lines 248-342) *)
(* that compute                                                      *)
Iteration(row) ==
    Scenario(demand_zones, stores, alphas, betas, df_flow, row)

(* one iteration of the while loop, the user's answers being the row; a *)
(* statement that raises ends the run and leaves the names assigned     *)
(* after it as they were                                                *)
OpenStore(row) ==
    /\ pc = "prompt"
    /\ \E it \in {Iteration(row)} :
           /\ my_store' = it.my_store
           /\ new_stores' = it.new_stores
           /\ new_df_flow' = IF it.step > 1 THEN it.new_df_flow ELSE new_df_flow
           /\ brand_revenue' = IF it.step > 2 THEN it.brand_revenue ELSE brand_revenue
           /\ store_revenue' = IF it.step > 2 THEN it.store_revenue ELSE store_revenue
           /\ trading_in' = IF it.step > 3 THEN it.trading_in ELSE trading_in
           /\ new_brand_revenue' =
                  IF it.step > 4 THEN it.new_brand_revenue ELSE new_brand_revenue
           /\ cani' = IF it.step > 4 THEN it.cani ELSE cani
           /\ raised' = it.raised
           /\ pc' = IF it.step = 5 THEN "prompt" ELSE "raised"
           /\ stores' = append_to_copy(stores, it.my_store)
    /\ UNCHANGED <<demand_zones, alphas, betas, df_flow, zone_flow>>

(* any answer but 'y' ends the loop *)
Quit ==
    /\ pc = "prompt"
    /\ pc' = "done"
    /\ UNCHANGED <<demand_zones, inputs, df_flow, scenario, zone_flow, raised>>

Next ==
    \/ Baseline
    \/ \E i \in 1..Len(demand_zones) : ZoneFlow(i)
    \/ \E row \in StoreRows : OpenStore(row)
    \/ Quit

Spec == Init /\ [][Next]_vars

----------------------------------------------------------------------------
(* Properties *)

(* df_flow holds a matrix the list form of comp_flow returned *)
Returned == pc \in {"prompt", "done"}

(* the last iteration of the loop ran to its end *)
Completed == Returned /\ my_store # NoStore

(* the single-zone form returned its list *)
ZoneReturned(i) == pc = "zone" /\ demand_zones[i].zone_flow.set

Expenditure(i) == Num(demand_zones[i].expenditure, 1)

(* the sum comp_ai inverts, for the i-th zone and a store list *)
Denominator(i, sts) ==
    AiLoop(demand_zones[i], sts, Num(betas[demand_zones[i].oac], 1), alphas, Zero)

(* the Store_Revenue values of the columns of a brand, from the j-th on *)
RECURSIVE BrandColumns(_, _, _)
BrandColumns(flows, brand, j) ==
    IF j > Len(flows.columns) THEN <<>>
    ELSE (IF flows.Brand_Name[j] = brand THEN <<flows.Store_Revenue[j]>> ELSE <<>>)
         \o BrandColumns(flows, brand, j + 1)

(* C1: production constraint.  Every zone row of a matrix comp_flow       *)
(* returned for a non-empty store list sums to the zone's expenditure, and *)
(* so does the list the single-zone form returned.                         *)
C1_ProductionConstraint ==
    /\ (Returned /\ stores # <<>>) =>
          \A i \in 1..Len(demand_zones) : Sum(df_flow.rows[i]) = Expenditure(i)
    /\ \A i \in 1..Len(demand_zones) :
          (ZoneReturned(i) /\ stores # <<>>) => Sum(zone_flow.val) = Expenditure(i)

(* every Store_Revenue value of the matrix is a number *)
Numeric(flows) ==
    \A j \in 1..Len(flows.columns) : IsNum(flows.Store_Revenue[j])

(* C2: comp_brand_revenue(brand, flows) is the sum of the Store_Revenue   *)
(* values of all the columns whose Brand_Name is brand, the first column  *)
(* included (stated for the returned matrices whose revenues are numbers). *)
C2_BrandRevenue ==
    (Returned /\ Numeric(df_flow)) =>
       \A brand \in {"A", "B", "C"} :
          comp_brand_revenue(brand, df_flow) = Sum(BrandColumns(df_flow, brand, 1))

(* C3: for every store column of a returned matrix the Store_Revenue value *)
(* get_store_revenue returns is the sum of the column's flows over all the *)
(* zone rows, for any zone list.                                           *)
C3_StoreRevenue ==
    Returned =>
       \A j \in 1..Len(stores) :
          get_store_revenue(stores[j], df_flow)
             = Sum(Column(df_flow.rows, j, 1, <<>>))

(* C4: a zone whose balancing-factor denominator is zero ends comp_flow in *)
(* an error: no matrix or list is returned for it, and no returned flow is *)
(* infinite or NaN.                                                        *)
C4_NoViableSupply ==
    /\ Returned =>
          \A i \in 1..Len(demand_zones) :
             /\ Denominator(i, stores) # Zero
             /\ \A j \in 1..Len(stores) : df_flow.rows[i][j].t \notin {"inf", "nan"}
    /\ \A i \in 1..Len(demand_zones) :
          ZoneReturned(i) =>
             /\ Denominator(i, stores) # Zero
             /\ \A j \in 1..Len(stores) : zone_flow.val[j].t \notin {"inf", "nan"}

(* a store's brand has no entry in alphas, or a zone's class none in betas *)
MissingParameter ==
    \/ \E j \in 1..Len(stores) : stores[j].brand \notin DOMAIN alphas
    \/ \E i \in 1..Len(demand_zones) : demand_zones[i].oac \notin DOMAIN betas

(* the run ended in the comp_flow call of line 153 *)
BaselineRaised ==
    /\ pc = "raised"
    /\ my_store = NoStore
    /\ \A i \in 1..Len(demand_zones) : ~demand_zones[i].zone_flow.set

(* C5: with a missing parameter anywhere in the zone or store order,    *)
(* comp_flow(demand_zones, stores, alphas, betas) returns no matrix and *)
(* ends in the missing-parameter error (KeyError).                      *)
C5_MissingParameter ==
    MissingParameter => (~Returned /\ (BaselineRaised => raised = KeyError))

(* C6: a call of comp_flow that returns, in either form, leaves the      *)
(* caller's zone objects, zone list, store list, alphas and betas as     *)
(* they were.                                                            *)
C6_Frame ==
    [][pc' \in {"zone", "prompt"} =>
          /\ demand_zones' = demand_zones
          /\ stores' = stores
          /\ alphas' = alphas
          /\ betas' = betas]_vars

(* what the baseline stores of a brand earn less in the augmented matrix, *)
(* from the j-th store on                                                 *)
RECURSIVE Losses(_, _)
Losses(brand, j) ==
    IF j > Len(stores) THEN <<>>
    ELSE (IF stores[j].brand = brand
          THEN <<Sub(df_flow.Store_Revenue[j], new_df_flow.Store_Revenue[j])>>
          ELSE <<>>)
         \o Losses(brand, j + 1)

(* C7: the reported cannibalization is the revenue the existing stores of *)
(* the new store's brand lose to it: the sum over every baseline store of *)
(* the brand of its baseline Store_Revenue minus its augmented one        *)
(* (stated for the matrices whose revenues are numbers).                  *)
C7_Cannibalization ==
    (Completed /\ Numeric(df_flow) /\ Numeric(new_df_flow)) =>
       cani = Sum(Losses(my_store.brand, 1))

(* cani as the loop reports it for a baseline read from the rows zl and sl *)
(* and the new store of the row, when both comp_flow calls return and the  *)
(* iteration runs to its end; None otherwise                               *)
CaniOf(zl, sl, row) ==
    LET base == comp_flow(ReadZones(zl), ReadStores(sl), AlphasTable, BetasTable)
        it == Scenario(ReadZones(zl), ReadStores(sl), AlphasTable, BetasTable,
                       base.df, row)
    IN  IF base.raised = None /\ it.step = 5 THEN it.cani ELSE None

(* C8 as claimed: some valid input gives a cannibalization below zero. *)
C8_NegativeCannibalization ==
    \E zl \in Lists(ZoneRows, MaxZones), sl \in Lists(StoreRows, MaxStores),
       row \in StoreRows :
          Less(CaniOf(zl, sl, row), Zero)

(* C8, amended: the reported cannibalization is never negative; it is a *)
(* number >= 0, or NaN when a flow is NaN.                              *)
C8_CannibalizationNotNegative ==
    Completed => (cani = NaN \/ LessEq(Zero, cani))

(* a new store that takes revenue from a competitor's store and from a *)
(* store of its own brand                                              *)
C8_Witness ==
    /\ Completed
    /\ Less(Zero, cani)
    /\ \E j \in 1..Len(stores) :
          /\ stores[j].brand # my_store.brand
          /\ Less(new_df_flow.Store_Revenue[j], df_flow.Store_Revenue[j])

(* np.exp(-X) for the i-th zone and a store *)
Decay(i, store) ==
    ExpNeg(Mul(Num(betas[demand_zones[i].oac], 1),
               dist_to_store(demand_zones[i], store)))

(* C9 as claimed, for one cell: >= 0, and zero only for a store without *)
(* floorspace (no distance of the model is infinite)                    *)
CellAsClaimed(i, sts, j, cell) ==
    /\ LessEq(Zero, cell)
    /\ cell = Zero => sts[j].footage = 0

(* C9, amended, for the row of one zone *)
RowAmended(i, sts, row) ==
    IF Denominator(i, sts) = Zero
    THEN \A j \in 1..Len(sts) : row[j] = NaN
    ELSE \A j \in 1..Len(sts) :
            /\ IsNum(row[j])
            /\ LessEq(Zero, row[j])
            /\ row[j] = Zero =>
                  \/ sts[j].footage = 0
                  \/ demand_zones[i].expenditure = 0
                  \/ Decay(i, sts[j]) = Zero

(* C9 as claimed: every flow cell of a returned matrix is >= 0, and is *)
(* exactly zero only when the store's floorspace is zero or the        *)
(* distance is infinite (stated for the returned matrices whose        *)
(* revenues are numbers).                                              *)
C9_FlowNonNegative ==
    (Returned /\ Numeric(df_flow)) =>
       \A i \in 1..Len(demand_zones), j \in 1..Len(stores) :
          CellAsClaimed(i, stores, j, df_flow.rows[i][j])

(* C9, amended: every flow cell of a returned matrix is a number >= 0,   *)
(* except that the cells of a zone whose balancing-factor denominator is *)
(* zero are all NaN; a cell is exactly zero only when the store's        *)
(* floorspace is zero, the zone's expenditure is zero, or the decay term *)
(* exp(-beta * distance) has underflowed to 0.0.                         *)
C9_FlowNonNegativeAmended ==
    /\ Returned =>
          \A i \in 1..Len(demand_zones) :
             RowAmended(i, stores, df_flow.rows[i])
    /\ Completed =>
          \A i \in 1..Len(demand_zones) :
             RowAmended(i, new_stores, new_df_flow.rows[i])

(* a returned matrix with a zero flow to a store that has floorspace, *)
(* beside a positive flow                                             *)
C9_Witness ==
    /\ Returned
    /\ \E i \in 1..Len(demand_zones), j \in 1..Len(stores) :
          df_flow.rows[i][j] = Zero /\ stores[j].footage > 0
    /\ \E i \in 1..Len(demand_zones), j \in 1..Len(stores) :
          Less(Zero, df_flow.rows[i][j])

(* the baseline matrix has just been computed *)
AfterBaseline == pc = "prompt" /\ my_store = NoStore

(* the store list with the floorspace of the j-th store set to footage *)
Refloor(j, footage) == [stores EXCEPT ![j].footage = footage]

(* flow(i, j) once the j-th store has the given floorspace and every *)
(* other input is as it was                                          *)
FlowAfter(i, j, footage) ==
    comp_flow(demand_zones, Refloor(j, footage), alphas, betas).df.rows[i][j]

(* the floorspaces the checks raise a floorspace to *)
Larger(footage) == {footage + 1, footage + 2}

(* the zone spends, the store's decay term is not zero, and some other *)
(* store of the list has floorspace and a decay term that is not zero  *)
Contested(i, j) ==
    /\ demand_zones[i].expenditure > 0
    /\ Decay(i, stores[j]) # Zero
    /\ \E k \in 1..Len(stores) :
          k # j /\ stores[k].footage > 0 /\ Decay(i, stores[k]) # Zero

(* C10 as claimed: with every other input fixed, a larger floorspace of *)
(* a store strictly increases every zone's flow to it, whatever the     *)
(* store list (stated for the baselines whose revenues are numbers).    *)
C10_FloorspaceMonotone ==
    (AfterBaseline /\ Numeric(df_flow)) =>
       \A i \in 1..Len(demand_zones), j \in 1..Len(stores) :
          \A footage \in Larger(stores[j].footage) :
             Less(df_flow.rows[i][j], FlowAfter(i, j, footage))

(* C10, amended: a larger floorspace of store s strictly increases       *)
(* flow(z, s) when z's expenditure is positive, the decay term of s at z *)
(* is not zero and some other store of the list has floorspace and a     *)
(* non-zero decay term at z; in every other case the flow stays as it    *)
(* was, unless it was NaN.                                               *)
C10_FloorspaceMonotoneAmended ==
    AfterBaseline =>
       \A i \in 1..Len(demand_zones), j \in 1..Len(stores) :
          \A footage \in Larger(stores[j].footage) :
             IF Contested(i, j)
             THEN Less(df_flow.rows[i][j], FlowAfter(i, j, footage))
             ELSE \/ df_flow.rows[i][j] = NaN
                  \/ df_flow.rows[i][j] = FlowAfter(i, j, footage)

(* a baseline with a contested store and with a store that is alone in *)
(* receiving a spending zone's flow                                    *)
C10_Witness ==
    /\ AfterBaseline
    /\ \E i \in 1..Len(demand_zones), j \in 1..Len(stores) : Contested(i, j)
    /\ \E i \in 1..Len(demand_zones), j \in 1..Len(stores) :
          /\ ~Contested(i, j)
          /\ demand_zones[i].expenditure > 0
          /\ df_flow.rows[i][j] = Expenditure(i)

(* C11: in every step of the what-if loop, whatever ran before it, the  *)
(* baseline store list and the baseline flow matrix stay as they were   *)
(* when the loop began; an iteration evaluates the baseline list        *)
(* followed by its own new store and nothing else, so no store of an    *)
(* earlier iteration is in it; and the baseline brand revenue an        *)
(* iteration reports is computed from the baseline matrix alone.        *)
C11_BaselineKept ==
    [][pc = "prompt" =>
         /\ stores' = stores
         /\ df_flow' = df_flow
         /\ pc' # "done" =>
               /\ new_stores' = Append(stores, my_store')
               /\ Len(new_stores') = Len(stores) + 1
         /\ (pc' = "prompt" /\ my_store' # NoStore) =>
               brand_revenue' = comp_brand_revenue(my_store'.brand, df_flow)]_vars

(* a try-again iteration has run after an earlier one: the matrix the  *)
(* earlier iteration left has another brand in its last column than    *)
(* the store of this iteration, whose collection is the baseline list  *)
(* and that store                                                      *)
C11_Witness ==
    /\ pc = "raised"
    /\ my_store # NoStore
    /\ new_df_flow # NoFrame
    /\ new_stores = Append(stores, my_store)
    /\ Len(new_df_flow.columns) = Len(new_stores)
    /\ new_df_flow.Brand_Name[Len(new_stores)] # my_store.brand

====
